---- MODULE Spec2Model ----
(***************************************************************************)
(* The in-memory pointer trie of simpletrie/trie.py: Leaf, Extension and   *)
(* Branch objects on a heap, the node operations get/delete/insert/copy,   *)
(* and the SimpleTrie facade that holds a root reference.                  *)
(*                                                                         *)
(* Python objects live in `heap`, a sequence indexed by address.  A        *)
(* reference is Ref(a); Python's None is the value None.  A Branch's       *)
(* `nodes` list is an object of its own, because the code copies it        *)
(* (self.nodes[:]) and assigns into it (branch[head] = ...).  Every        *)
(* operation takes the heap and returns [heap, ret, exc]: the heap after   *)
(* the call, the value returned, and the exception raised ("none" when     *)
(* the call returned).                                                     *)
(*                                                                         *)
(* `gen` is the frame of a running nibbles_to_bytes generator of           *)
(* simpletrie/utils.py, `trie` the Trie object of trie/__init__.py.        *)
(***************************************************************************)
EXTENDS Integers, Sequences, FiniteSets, TLC

VARIABLES heap, root, dict, last, orig, copy, nops, gen, trie

vars == <<heap, root, dict, last, orig, copy, nops, gen, trie>>

(***************************************************************************)
(* Values.                                                                 *)
(***************************************************************************)
\* Number of child slots of a Branch: [None] * 16.
Width == 16

None == [type |-> "None"]

\* A bytes object, by its content (bytes are immutable and compare by content).
Bytes(b) == [type |-> "bytes", data |-> b]

\* A reference to the heap object at address a.
Ref(a) == [type |-> "ref", at |-> a]

Ok(h, x) == [heap |-> h, ret |-> x, exc |-> "none"]

Raise(h, e) == [heap |-> h, ret |-> None, exc |-> e]

\* Object creation: the new object gets the next free address.
Alloc(h, obj) == Ok(Append(h, obj), Ref(Len(h) + 1))

\* Python slices s[i:] and s[:i] of a tuple.
SliceFrom(s, i) == SubSeq(s, i + 1, Len(s))

SliceTo(s, i) == SubSeq(s, 1, IF i < Len(s) THEN i ELSE Len(s))

(***************************************************************************)
(* utils.py                                                                *)
(***************************************************************************)
\* bytes_to_nibbles that yields the low nibble of a byte first.
RECURSIVE bytes_to_nibbles_lowfirst(_)
bytes_to_nibbles_lowfirst(xs) ==
    IF xs = <<>> THEN <<>>
    ELSE <<Head(xs) % 16, Head(xs) \div 16>> \o bytes_to_nibbles_lowfirst(Tail(xs))

RECURSIVE bytes_to_nibbles(_)
bytes_to_nibbles(xs) ==
    IF xs = <<>> THEN <<>>
    ELSE <<Head(xs) \div 16, Head(xs) % 16>> \o bytes_to_nibbles(Tail(xs))

\* b''.join(chunks)
RECURSIVE join(_)
join(chunks) == IF chunks = <<>> THEN <<>> ELSE Head(chunks) \o join(Tail(chunks))

\* b += x instead of b += 16 * x for the first nibble of a pair, and the
\* other way round.
nibbles_accumulate_swapped(b, x, odd) == b + (IF odd THEN x ELSE 16 * x)

\* b += 16 * x if odd else x
nibbles_accumulate(b, x, odd) == b + (IF odd THEN 16 * x ELSE x)

\* The frame of nibbles_to_bytes(xs) when the generator is created:
\* odd, even = True, False; b = 0.  pos counts the items taken from xs, out
\* holds the bytes objects yielded so far.
nibbles_to_bytes_frame(xs) ==
    [type |-> "generator", xs |-> xs, pos |-> 0, odd |-> TRUE, even |-> FALSE,
     b |-> 0, out |-> <<>>, exc |-> "none", done |-> FALSE]

\* One pass through the body of `for x in xs`.
nibbles_to_bytes_body(f) ==
    LET x == f.xs[f.pos + 1]
        b == nibbles_accumulate(f.b, x, f.odd)
    IN  [f EXCEPT !.pos = f.pos + 1,
                  !.b = IF f.even THEN 0 ELSE b,
                  !.out = IF f.even THEN Append(f.out, <<b>>) ELSE f.out,
                  !.odd = f.even,
                  !.even = f.odd]

\* The check after the loop, made on `odd`.
nibbles_to_bytes_end_odd(f) ==
    [f EXCEPT !.done = TRUE, !.exc = IF f.odd THEN "ValueError" ELSE "none"]

\* After the loop: if even: raise ValueError(...); else the generator ends.
nibbles_to_bytes_end(f) ==
    [f EXCEPT !.done = TRUE, !.exc = IF f.even THEN "ValueError" ELSE "none"]

RECURSIVE prefix_loop(_, _, _)
prefix_loop(x, y, l) ==
    IF l < Len(x) /\ l < Len(y) /\ x[l + 1] = y[l + 1]
    THEN prefix_loop(x, y, l + 1)
    ELSE l

\* prefix_length that finds no common prefix.
prefix_length_zero(x, y) == 0

prefix_length(x, y) == prefix_loop(x, y, 0)

(***************************************************************************)
(* Constructors and field access.                                          *)
(***************************************************************************)
Leaf_init(h, key, value) == Alloc(h, [type |-> "Leaf", key |-> key, value |-> value])

Extension_init(h, key, node) ==
    Alloc(h, [type |-> "Extension", key |-> key, node |-> node])

\* [None] * 16
list_new(h) == Alloc(h, [type |-> "list", items |-> [i \in 1..Width |-> None]])

\* self.nodes in place of self.nodes[:] : the list itself.
list_copy_alias(h, l) == Ok(h, l)

\* self.nodes[:] : a new list holding the same references.
list_copy(h, l) == Alloc(h, [type |-> "list", items |-> h[l.at].items])

\* Branch(nodes, value) that stores no value.
Branch_init_novalue(h, nodes, value) ==
    IF nodes = None
    THEN LET l == list_new(h)
         IN  Alloc(l.heap, [type |-> "Branch", nodes |-> l.ret, value |-> None])
    ELSE Alloc(h, [type |-> "Branch", nodes |-> nodes, value |-> None])

\* Branch(nodes, value): a list passed in is kept by reference, not copied.
Branch_init(h, nodes, value) ==
    IF nodes = None
    THEN LET l == list_new(h)
         IN  Alloc(l.heap, [type |-> "Branch", nodes |-> l.ret, value |-> value])
    ELSE Alloc(h, [type |-> "Branch", nodes |-> nodes, value |-> value])

\* Branch.__getitem__ that finds every slot empty.
Branch_getitem_none(h, self, key) == None

\* Branch.__getitem__: self.nodes[key], key a nibble 0..15.
Branch_getitem(h, self, key) == h[h[self.at].nodes.at].items[key + 1]

\* Branch.__setitem__ that stores nothing.
Branch_setitem_lost(h, self, key, value) == h

\* Branch.__setitem__: self.nodes[key] = value, in place; the heap after it.
Branch_setitem(h, self, key, value) ==
    LET l == h[self.at].nodes.at
    IN  [h EXCEPT ![l].items[key + 1] = value]

Narrow_is_shallow(h, self) == Len(h[self.at].key) = 0

\* Narrow.head that returns the whole key.
Narrow_head_whole(h, self, i) == h[self.at].key

Narrow_head(h, self, i) == SliceTo(h[self.at].key, i)

Leaf_tail(h, self, i) ==
    Leaf_init(h, SliceFrom(h[self.at].key, i), h[self.at].value)

\* Extension.tail that keeps a shallow Extension.
Extension_tail_shallow(h, self, i) ==
    Extension_init(h, SliceFrom(h[self.at].key, i), h[self.at].node)

\* Extension.tail that returns the child whatever is left of the key.
Extension_tail_node(h, self, i) == Ok(h, h[self.at].node)

Extension_tail(h, self, i) ==
    LET tl == Extension_init(h, SliceFrom(h[self.at].key, i), h[self.at].node)
    IN  IF Narrow_is_shallow(tl.heap, tl.ret)
        THEN Ok(tl.heap, tl.heap[tl.ret.at].node)
        ELSE tl

\* node.tail(i) on a Leaf or an Extension.
Narrow_tail(h, self, i) ==
    IF h[self.at].type = "Leaf" THEN Leaf_tail(h, self, i)
    ELSE Extension_tail(h, self, i)

(***************************************************************************)
(* Node operations.  a + b and a - key are Python's operator dispatch:     *)
(* Node.__add__ is insert, Node.__sub__ is delete, and None, which has no  *)
(* __add__, leaves the sum to the right operand's __radd__.                *)
(***************************************************************************)
RECURSIVE Node_get(_, _, _), Node_delete(_, _, _), Node_insert(_, _, _)
RECURSIVE Node_copy(_, _), Node_len(_, _), Node_eq(_, _, _), Add(_, _, _)
RECURSIVE Leaf_insert(_, _, _), Extension_insert(_, _, _), Branch_insert(_, _, _)
RECURSIVE Extension_delete(_, _, _), Branch_delete(_, _, _)

\* Node.__radd__ that returns the left operand.
Node_radd_other(h, self, other) == Ok(h, other)

\* Node.__radd__(self, other): the node itself.
Node_radd(h, self, other) == Ok(h, self)

\* Node.__add__(self, node)
Node_add(h, self, node) == Node_insert(h, self, node)

\* Node.__sub__(self, key)
Node_sub(h, self, key) == Node_delete(h, self, key)

\* a + b
Add(h, a, b) ==
    IF a = None THEN Node_radd(h, b, a) ELSE Node_add(h, a, b)

Leaf_is_empty(h, self) == h[self.at].value = None

Extension_is_empty(h, self) == h[self.at].node = None

\* Branch.is_empty that never holds.
Branch_is_empty_never(h, self) == FALSE

Branch_is_empty(h, self) ==
    /\ \A i \in 1..Len(h[h[self.at].nodes.at].items) :
          h[h[self.at].nodes.at].items[i] = None
    /\ h[self.at].value = None

Node_is_empty(h, self) ==
    CASE h[self.at].type = "Leaf" -> Leaf_is_empty(h, self)
      [] h[self.at].type = "Extension" -> Extension_is_empty(h, self)
      [] h[self.at].type = "Branch" -> Branch_is_empty(h, self)

(* get *)
\* Leaf.get that does not compare the key.
Leaf_get_anykey(h, self, key) == Ok(h, h[self.at].value)

Leaf_get(h, self, key) ==
    IF h[self.at].key = key THEN Ok(h, h[self.at].value)
    ELSE Raise(h, "KeyError")

\* Extension.get that compares the whole key with self.key.
Extension_get_wholekey(h, self, key) ==
    IF h[self.at].key = key
    THEN IF h[self.at].node = None THEN Raise(h, "AttributeError")
         ELSE Node_get(h, h[self.at].node, <<>>)
    ELSE Raise(h, "KeyError")

Extension_get(h, self, key) ==
    LET i == Len(h[self.at].key)
        head == SliceTo(key, i)
        tail == SliceFrom(key, i)
    IN  IF h[self.at].key = head
        THEN IF h[self.at].node = None THEN Raise(h, "AttributeError")
             ELSE Node_get(h, h[self.at].node, tail)
        ELSE Raise(h, "KeyError")

Branch_get(h, self, key) ==
    IF Len(key) = 0
    THEN IF h[self.at].value = None THEN Raise(h, "KeyError")
         ELSE Ok(h, h[self.at].value)
    ELSE LET head == key[1]
             tail == SliceFrom(key, 1)
             node == Branch_getitem(h, self, head)
         IN  IF node # None THEN Node_get(h, node, tail)
             ELSE Raise(h, "KeyError")

Node_get(h, self, key) ==
    CASE h[self.at].type = "Leaf" -> Leaf_get(h, self, key)
      [] h[self.at].type = "Extension" -> Extension_get(h, self, key)
      [] h[self.at].type = "Branch" -> Branch_get(h, self, key)

(* delete *)
\* Leaf.delete that returns the leaf.
Leaf_delete_kept(h, self, key) ==
    IF h[self.at].key = key THEN Ok(h, self)
    ELSE Raise(h, "KeyError")

\* Leaf.delete that does not compare the key.
Leaf_delete_anykey(h, self, key) == Ok(h, None)

Leaf_delete(h, self, key) ==
    IF h[self.at].key = key THEN Ok(h, None)
    ELSE Raise(h, "KeyError")

Extension_delete(h, self, key) ==
    LET i == Len(h[self.at].key)
        head == SliceTo(key, i)
        tail == SliceFrom(key, i)
    IN  IF h[self.at].key = head
        THEN IF h[self.at].node = None THEN Raise(h, "AttributeError")
             ELSE LET d == Node_delete(h, h[self.at].node, tail)
                  IN  IF d.exc # "none" THEN d
                      ELSE LET ext == Extension_init(d.heap, h[self.at].key, d.ret)
                           IN  IF Extension_is_empty(ext.heap, ext.ret)
                               THEN Ok(ext.heap, None)
                               ELSE ext
        ELSE Raise(h, "KeyError")

\* Branch.delete that does not carry the Branch's value over when it
\* deletes below a slot.
Branch_delete_dropvalue(h, self, key) ==
    IF Len(key) = 0
    THEN IF h[self.at].value = None THEN Raise(h, "KeyError")
         ELSE LET c == list_copy(h, h[self.at].nodes)
                  branch == Branch_init(c.heap, c.ret, None)
              IN  IF Branch_is_empty(branch.heap, branch.ret)
                  THEN Ok(branch.heap, None)
                  ELSE branch
    ELSE LET head == key[1]
             tail == SliceFrom(key, 1)
             node == Branch_getitem(h, self, head)
         IN  IF node = None THEN Raise(h, "KeyError")
             ELSE LET c == list_copy(h, h[self.at].nodes)
                      branch == Branch_init(c.heap, c.ret, None)
                      d == Node_delete(branch.heap, node, tail)
                  IN  IF d.exc # "none" THEN d
                      ELSE LET h2 == Branch_setitem(d.heap, branch.ret, head, d.ret)
                           IN  IF Branch_is_empty(h2, branch.ret)
                               THEN Ok(h2, None)
                               ELSE Ok(h2, branch.ret)

Branch_delete(h, self, key) ==
    IF Len(key) = 0
    THEN IF h[self.at].value = None THEN Raise(h, "KeyError")
         ELSE LET c == list_copy(h, h[self.at].nodes)
                  branch == Branch_init(c.heap, c.ret, None)
              IN  IF Branch_is_empty(branch.heap, branch.ret)
                  THEN Ok(branch.heap, None)
                  ELSE branch
    ELSE LET head == key[1]
             tail == SliceFrom(key, 1)
             node == Branch_getitem(h, self, head)
         IN  IF node = None THEN Raise(h, "KeyError")
             ELSE LET c == list_copy(h, h[self.at].nodes)
                      branch == Branch_init(c.heap, c.ret, h[self.at].value)
                      d == Node_delete(branch.heap, node, tail)
                  IN  IF d.exc # "none" THEN d
                      ELSE LET h2 == Branch_setitem(d.heap, branch.ret, head, d.ret)
                           IN  IF Branch_is_empty(h2, branch.ret)
                               THEN Ok(h2, None)
                               ELSE Ok(h2, branch.ret)

Node_delete(h, self, key) ==
    CASE h[self.at].type = "Leaf" -> Leaf_delete(h, self, key)
      [] h[self.at].type = "Extension" -> Extension_delete(h, self, key)
      [] h[self.at].type = "Branch" -> Branch_delete(h, self, key)

(* insert *)
Leaf_insert(h, self, leaf) ==
    IF h[self.at].key = h[leaf.at].key THEN Ok(h, leaf)
    ELSE IF Narrow_is_shallow(h, self)
    THEN LET b == Branch_init(h, None, h[self.at].value)
         IN  Add(b.heap, b.ret, leaf)
    ELSE IF Narrow_is_shallow(h, leaf)
    THEN LET b == Branch_init(h, None, h[leaf.at].value)
         IN  Add(b.heap, b.ret, self)
    ELSE LET l == prefix_length(h[self.at].key, h[leaf.at].key)
         IN  IF l > 0
             THEN LET t1 == Leaf_tail(h, self, l)
                      t2 == Leaf_tail(t1.heap, leaf, l)
                      m == Add(t2.heap, t1.ret, t2.ret)
                  IN  IF m.exc # "none" THEN m
                      ELSE Extension_init(m.heap, Narrow_head(h, self, l), m.ret)
             ELSE LET b == Branch_init(h, None, None)
                      r == Add(b.heap, b.ret, self)
                  IN  IF r.exc # "none" THEN r
                      ELSE Add(r.heap, r.ret, leaf)

Extension_insert(h, self, leaf) ==
    IF Narrow_is_shallow(h, self) THEN Add(h, h[self.at].node, leaf)
    ELSE IF Narrow_is_shallow(h, leaf)
    THEN LET b == Branch_init(h, None, h[leaf.at].value)
         IN  Add(b.heap, b.ret, self)
    ELSE LET l == prefix_length(h[self.at].key, h[leaf.at].key)
         IN  IF l > 0
             THEN LET t1 == Extension_tail(h, self, l)
                      t2 == Leaf_tail(t1.heap, leaf, l)
                      m == Add(t2.heap, t1.ret, t2.ret)
                  IN  IF m.exc # "none" THEN m
                      ELSE Extension_init(m.heap, Narrow_head(h, self, l), m.ret)
             ELSE LET b == Branch_init(h, None, None)
                      r == Add(b.heap, b.ret, self)
                  IN  IF r.exc # "none" THEN r
                      ELSE Add(r.heap, r.ret, leaf)

\* Branch.insert without the guard: a shallow Extension is taken like a
\* shallow Leaf that has no value.
Branch_insert_unguarded(h, self, node) ==
    IF Narrow_is_shallow(h, node)
    THEN LET c == list_copy(h, h[self.at].nodes)
         IN  Branch_init(c.heap, c.ret,
                         IF h[node.at].type = "Extension" THEN None
                         ELSE h[node.at].value)
    ELSE LET c == list_copy(h, h[self.at].nodes)
             branch == Branch_init(c.heap, c.ret, h[self.at].value)
             k == h[node.at].key[1]
         IN  IF h[node.at].type = "Extension"
             THEN LET t == Extension_tail(branch.heap, node, 1)
                  IN  Ok(Branch_setitem(t.heap, branch.ret, k, t.ret), branch.ret)
             ELSE LET old == Branch_getitem(branch.heap, branch.ret, k)
                      t == Narrow_tail(branch.heap, node, 1)
                      s == Add(t.heap, old, t.ret)
                  IN  IF s.exc # "none" THEN s
                      ELSE Ok(Branch_setitem(s.heap, branch.ret, k, s.ret), branch.ret)

Branch_insert(h, self, node) ==
    IF Narrow_is_shallow(h, node)
    THEN IF h[node.at].type = "Extension" THEN Raise(h, "ValueError")
         ELSE LET c == list_copy(h, h[self.at].nodes)
              IN  Branch_init(c.heap, c.ret, h[node.at].value)
    ELSE LET c == list_copy(h, h[self.at].nodes)
             branch == Branch_init(c.heap, c.ret, h[self.at].value)
             k == h[node.at].key[1]
         IN  IF h[node.at].type = "Extension"
             THEN LET t == Extension_tail(branch.heap, node, 1)
                  IN  Ok(Branch_setitem(t.heap, branch.ret, k, t.ret), branch.ret)
             ELSE LET old == Branch_getitem(branch.heap, branch.ret, k)
                      t == Narrow_tail(branch.heap, node, 1)
                      s == Add(t.heap, old, t.ret)
                  IN  IF s.exc # "none" THEN s
                      ELSE Ok(Branch_setitem(s.heap, branch.ret, k, s.ret), branch.ret)

Node_insert(h, self, node) ==
    CASE h[self.at].type = "Leaf" -> Leaf_insert(h, self, node)
      [] h[self.at].type = "Extension" -> Extension_insert(h, self, node)
      [] h[self.at].type = "Branch" -> Branch_insert(h, self, node)

(* copy *)
Leaf_copy(h, self) == Leaf_init(h, h[self.at].key, h[self.at].value)

Extension_copy(h, self) ==
    IF h[self.at].node = None THEN Raise(h, "AttributeError")
    ELSE LET c == Node_copy(h, h[self.at].node)
         IN  IF c.exc # "none" THEN c
             ELSE Extension_init(c.heap, h[self.at].key, c.ret)

\* The first slot from i on that holds a node; 0 when there is none.
NextNode(items, i) ==
    LET rest == {j \in i..Len(items) : items[j] # None}
    IN  IF rest = {} THEN 0 ELSE CHOOSE j \in rest : \A m \in rest : j <= m

\* [n.copy() if n is not None else n for n in self.nodes], from slot i on:
\* acc holds the new list's items so far; a None slot stays None.
RECURSIVE copy_items(_, _, _, _)
copy_items(h, items, i, acc) ==
    LET j == NextNode(items, i)
    IN  IF j = 0 THEN Ok(h, acc)
        ELSE LET c == Node_copy(h, items[j])
             IN  IF c.exc # "none" THEN c
                 ELSE copy_items(c.heap, items, j + 1, [acc EXCEPT ![j] = c.ret])

\* Branch.copy that passes self.nodes on.
Branch_copy_shallow(h, self) == Branch_init(h, h[self.at].nodes, h[self.at].value)

Branch_copy(h, self) ==
    LET items == h[h[self.at].nodes.at].items
        c == copy_items(h, items, 1, [i \in 1..Len(items) |-> None])
    IN  IF c.exc # "none" THEN c
        ELSE LET l == Alloc(c.heap, [type |-> "list", items |-> c.ret])
             IN  Branch_init(l.heap, l.ret, h[self.at].value)

Node_copy(h, self) ==
    CASE h[self.at].type = "Leaf" -> Leaf_copy(h, self)
      [] h[self.at].type = "Extension" -> Extension_copy(h, self)
      [] h[self.at].type = "Branch" -> Branch_copy(h, self)

(* __len__ *)
Leaf_len(h, self) == IF h[self.at].value = None THEN 0 ELSE 1

Extension_len(h, self) == Node_len(h, h[self.at].node)

\* sum(len(n) if n is not None else 0 for n in self.nodes), from slot i on.
RECURSIVE sum_len(_, _, _)
sum_len(h, items, i) ==
    LET j == NextNode(items, i)
    IN  IF j = 0 THEN 0
        ELSE Node_len(h, items[j]) + sum_len(h, items, j + 1)

\* Branch.__len__ that leaves out the Branch's own value.
Branch_len_slots(h, self) == sum_len(h, h[h[self.at].nodes.at].items, 1)

Branch_len(h, self) ==
    (IF h[self.at].value = None THEN 0 ELSE 1)
    + sum_len(h, h[h[self.at].nodes.at].items, 1)

Node_len(h, self) ==
    CASE h[self.at].type = "Leaf" -> Leaf_len(h, self)
      [] h[self.at].type = "Extension" -> Extension_len(h, self)
      [] h[self.at].type = "Branch" -> Branch_len(h, self)

(* __eq__ *)
\* x == y for two slot or field values, each a node reference or None.
RECURSIVE py_eq(_, _, _)
py_eq(h, x, y) ==
    IF x = None \/ y = None THEN x = None /\ y = None
    ELSE Node_eq(h, x, y)

\* Node.__eq__ for Leaf (value, key) and Extension (node, key); Branch.__eq__.
Node_eq(h, self, node) ==
    /\ h[self.at].type = h[node.at].type
    /\ CASE h[self.at].type = "Leaf" ->
              /\ h[self.at].value = h[node.at].value
              /\ h[self.at].key = h[node.at].key
         [] h[self.at].type = "Extension" ->
              /\ py_eq(h, h[self.at].node, h[node.at].node)
              /\ h[self.at].key = h[node.at].key
         [] h[self.at].type = "Branch" ->
              /\ h[self.at].value = h[node.at].value
              /\ LET n1 == h[h[self.at].nodes.at].items
                     n2 == h[h[node.at].nodes.at].items
                 IN  \A i \in 1..(IF Len(n1) < Len(n2) THEN Len(n1) ELSE Len(n2)) :
                        py_eq(h, n1[i], n2[i])

(***************************************************************************)
(* The structure reachable from a reference, as a value: a Leaf, Extension *)
(* or Branch record whose children are such records.  Load builds the      *)
(* objects of such a structure through the constructors.                   *)
(***************************************************************************)
RECURSIVE Tree(_, _)
Tree(h, r) ==
    IF r = None THEN None
    ELSE CASE h[r.at].type = "Leaf" ->
                [type |-> "Leaf", key |-> h[r.at].key, value |-> h[r.at].value]
           [] h[r.at].type = "Extension" ->
                [type |-> "Extension", key |-> h[r.at].key,
                 node |-> Tree(h, h[r.at].node)]
           [] h[r.at].type = "Branch" ->
                [type |-> "Branch",
                 nodes |-> [i \in 1..Len(h[h[r.at].nodes.at].items) |->
                               Tree(h, h[h[r.at].nodes.at].items[i])],
                 value |-> h[r.at].value]

RECURSIVE Load(_, _), load_items(_, _, _, _)
load_items(h, ts, i, acc) ==
    LET j == NextNode(ts, i)
    IN  IF j = 0 THEN Ok(h, acc)
        ELSE LET c == Load(h, ts[j])
             IN  IF c.exc # "none" THEN c
                 ELSE load_items(c.heap, ts, j + 1, [acc EXCEPT ![j] = c.ret])

Load(h, t) ==
    CASE t.type = "None" -> Ok(h, None)
      [] t.type = "Leaf" -> Leaf_init(h, t.key, t.value)
      [] t.type = "Extension" ->
           LET c == Load(h, t.node)
           IN  Extension_init(c.heap, t.key, c.ret)
      [] t.type = "Branch" ->
           LET c == load_items(h, t.nodes, 1, [i \in 1..Len(t.nodes) |-> None])
               l == Alloc(c.heap, [type |-> "list", items |-> c.ret])
           IN  Branch_init(l.heap, l.ret, t.value)

\* Objects no longer referenced are reclaimed: between two calls on a
\* SimpleTrie only _root refers to nodes, so the heap is the structure
\* reachable from it, its objects numbered in construction order.
Collect(h, r) ==
    LET t == Tree(h, r)
    IN  IF t = None THEN Ok(<<>>, None) ELSE Load(<<>>, t)

\* The addresses of the nodes reachable from reference r (r's own included).
RECURSIVE Reach(_, _)
Reach(h, r) ==
    IF r = None THEN {}
    ELSE CASE h[r.at].type = "Leaf" -> {r.at}
           [] h[r.at].type = "Extension" -> {r.at} \cup Reach(h, h[r.at].node)
           [] h[r.at].type = "Branch" ->
                {r.at} \cup UNION {Reach(h, h[h[r.at].nodes.at].items[i]) :
                                     i \in 1..Len(h[h[r.at].nodes.at].items)}

(***************************************************************************)
(* SimpleTrie.  Each operation returns [heap, root, ret, exc]: root is     *)
(* self._root after the call.                                              *)
(***************************************************************************)
SimpleTrie_getitem(h, r, key) ==
    IF r = None THEN [heap |-> h, root |-> r, ret |-> None, exc |-> "KeyError"]
    ELSE LET g == Node_get(h, r, bytes_to_nibbles(key))
         IN  [heap |-> g.heap, root |-> r, ret |-> g.ret, exc |-> g.exc]

SimpleTrie_delitem(h, r, key) ==
    IF r = None THEN [heap |-> h, root |-> r, ret |-> None, exc |-> "KeyError"]
    ELSE LET d == Node_sub(h, r, bytes_to_nibbles(key))
         IN  IF d.exc # "none"
             THEN [heap |-> d.heap, root |-> r, ret |-> None, exc |-> d.exc]
             ELSE [heap |-> d.heap, root |-> d.ret, ret |-> None, exc |-> "none"]

SimpleTrie_setitem(h, r, key, value) ==
    LET leaf == Leaf_init(h, bytes_to_nibbles(key), value)
        s == Add(leaf.heap, r, leaf.ret)
    IN  IF s.exc # "none"
        THEN [heap |-> s.heap, root |-> r, ret |-> None, exc |-> s.exc]
        ELSE [heap |-> s.heap, root |-> s.ret, ret |-> None, exc |-> "none"]

SimpleTrie_len(h, r) == IF r = None THEN 0 ELSE Node_len(h, r)

(***************************************************************************)
(* The calls made on one SimpleTrie.  Keys are the first NumKeys byte      *)
(* strings of KeyList, values are byte strings; `dict` is a Python dict    *)
(* driven by the same calls, and `last` records the last call and how it   *)
(* ended.                                                                  *)
(***************************************************************************)
NumKeys == 6

MaxEntries == 3

\* b"", b"\x12", b"\x12\x13", b"\x12\x13\x12", b"\x13", b"\x22", ...
KeyList ==
    << <<>>, <<18>>, <<18, 19>>, <<18, 19, 18>>, <<19>>, <<34>>,
       <<18, 18>>, <<34, 18>> >>

Keys == {KeyList[i] : i \in 1..(IF NumKeys < Len(KeyList) THEN NumKeys ELSE Len(KeyList))}

\* b"" and b"\x01"
Values == {Bytes(<<>>), Bytes(<<1>>)}

Mapped == {k \in Keys : dict[k] # None}

Call(op, key, value, exc, ret) ==
    [op |-> op, key |-> key, value |-> value, exc |-> exc, ret |-> ret]

Idle == Call("idle", <<>>, None, "none", None)

Init ==
    /\ heap = <<>>
    /\ root = None
    /\ dict = [k \in Keys |-> None]
    /\ last = Idle
    /\ orig = None
    /\ copy = None
    /\ nops = 0
    /\ gen = None
    /\ trie = None

\* trie[k] = v
Set(k, v) ==
    /\ last = Idle
    /\ k \in Mapped \/ Cardinality(Mapped) < MaxEntries
    /\ LET r == SimpleTrie_setitem(heap, root, k, v)
           c == Collect(r.heap, r.root)
       IN  /\ last' = Call("set", k, v, r.exc, None)
           /\ heap' = c.heap
           /\ root' = c.ret
    /\ dict' = [dict EXCEPT ![k] = v]
    /\ UNCHANGED <<orig, copy, nops, gen, trie>>

\* del trie[k]
Delete(k) ==
    /\ last = Idle
    /\ LET r == SimpleTrie_delitem(heap, root, k)
           c == Collect(r.heap, r.root)
       IN  /\ last' = Call("delete", k, None, r.exc, None)
           /\ heap' = c.heap
           /\ root' = c.ret
    /\ dict' = [dict EXCEPT ![k] = None]
    /\ UNCHANGED <<orig, copy, nops, gen, trie>>

\* trie[k]
Get(k) ==
    /\ last = Idle
    /\ LET r == SimpleTrie_getitem(heap, root, k)
       IN  last' = Call("get", k, None, r.exc, r.ret)
    /\ UNCHANGED <<heap, root, dict, orig, copy, nops, gen, trie>>

\* The caller has seen how the call ended and goes on to its next call.
Return ==
    /\ last # Idle
    /\ last.op \in {"set", "delete", "get"}
    /\ last' = Idle
    /\ UNCHANGED <<heap, root, dict, orig, copy, nops, gen, trie>>

Next ==
    \/ \E k \in Keys, v \in Values : Set(k, v)
    \/ \E k \in Keys : Delete(k)
    \/ \E k \in Keys : Get(k)
    \/ Return

Spec == Init /\ [][Next]_vars

\* C1: the trie agrees with the reference dictionary on every key.
C1_AgreesWithDict ==
    \A k \in Keys :
        LET g == SimpleTrie_getitem(heap, root, k)
        IN  IF dict[k] = None THEN g.exc = "KeyError"
            ELSE g.exc = "none" /\ g.ret = dict[k]

\* A set has just succeeded on a trie that holds MaxEntries keys below an
\* Extension, and get returns the value it stored.
C1_Witness ==
    /\ last.op = "set" /\ last.exc = "none"
    /\ Cardinality(Mapped) = MaxEntries
    /\ root # None /\ heap[root.at].type = "Extension"
    /\ SimpleTrie_getitem(heap, root, last.key).ret = last.value

(***************************************************************************)
(* Calls made on one node, as a program holding nodes makes them: a node n *)
(* built through the constructors, then node += Leaf(key, value),          *)
(* node -= key, n.copy() and assignments to the fields of the copy.        *)
(* `orig` keeps the reference to n and the heap as it was when n was       *)
(* built, `root` is the node the calls have led to, `copy` the copy.       *)
(***************************************************************************)
MaxNodeOps == 2

\* Nibble keys of the calls; keys and value of the nodes that n is built of.
NodeKeys == {<<>>, <<1>>, <<2>>, <<1, 1>>, <<1, 2>>, <<1, 2, 1>>}

LeafKeys == {<<>>, <<1>>, <<1, 2>>}

ExtensionKeys == {<<1>>, <<1, 2>>}

Stored == Bytes(<<2>>)

TLeaf(key, value) == [type |-> "Leaf", key |-> key, value |-> value]

TExtension(key, node) == [type |-> "Extension", key |-> key, node |-> node]

\* A Branch with children a and b in the slots of nibbles 1 and 2.
TBranch(a, b, value) ==
    [type |-> "Branch",
     nodes |-> [i \in 1..Width |-> IF i = 2 THEN a ELSE IF i = 3 THEN b ELSE None],
     value |-> value]

Leaves == {TLeaf(k, Stored) : k \in LeafKeys}

Branches1 ==
    {TBranch(a, b, v) : a \in Leaves \cup {None}, b \in {None, TLeaf(<<1>>, Stored)},
                        v \in {None, Stored}}

Extensions1 == {TExtension(k, b) : k \in ExtensionKeys, b \in Branches1}

\* Children that are themselves a Branch or an Extension over a Branch.
Inner ==
    {TBranch(a, None, v) : a \in {None, TLeaf(<<>>, Stored), TLeaf(<<2>>, Stored)},
                           v \in {None, Stored}}
    \cup {TExtension(k, TBranch(None, TLeaf(<<>>, Stored), v)) :
             k \in ExtensionKeys, v \in {None, Stored}}

Branches2 ==
    {TBranch(a, TLeaf(<<1>>, Stored), v) : a \in Inner, v \in {None, Stored}}

Extensions2 ==
    {TExtension(<<1>>, TBranch(a, None, v)) : a \in Inner, v \in {None, Stored}}

NodeSet == Leaves \cup Branches1 \cup Extensions1 \cup Branches2 \cup Extensions2

InitNode ==
    \E t \in NodeSet \cup {None} :
        LET l == Load(<<>>, t)
        IN  /\ heap = l.heap
            /\ root = l.ret
            /\ orig = [at |-> l.ret, heap |-> l.heap]
            /\ dict = [k \in Keys |-> None]
            /\ last = Idle
            /\ copy = None
            /\ nops = 0
            /\ gen = None
            /\ trie = None

\* node += Leaf(key, value)
NodeInsert(key, value) ==
    /\ nops < MaxNodeOps
    /\ copy = None
    /\ LET leaf == Leaf_init(heap, key, value)
           s == Add(leaf.heap, root, leaf.ret)
       IN  /\ last' = Call("insert", key, value, s.exc, s.ret)
           /\ heap' = s.heap
           /\ root' = IF s.exc = "none" THEN s.ret ELSE root
    /\ nops' = nops + 1
    /\ UNCHANGED <<dict, orig, copy, gen, trie>>

\* node -= key
NodeDelete(key) ==
    /\ nops < MaxNodeOps
    /\ copy = None
    /\ root # None
    /\ LET d == Node_sub(heap, root, key)
       IN  /\ last' = Call("delete", key, None, d.exc, d.ret)
           /\ heap' = d.heap
           /\ root' = IF d.exc = "none" THEN d.ret ELSE root
    /\ nops' = nops + 1
    /\ UNCHANGED <<dict, orig, copy, gen, trie>>

\* copy = n.copy()
NodeCopy ==
    /\ nops = 0
    /\ copy = None
    /\ orig.at # None
    /\ LET c == Node_copy(heap, orig.at)
       IN  /\ last' = Call("copy", <<>>, None, c.exc, c.ret)
           /\ heap' = c.heap
           /\ copy' = c.ret
    /\ nops' = nops + 1
    /\ UNCHANGED <<root, dict, orig, gen, trie>>

\* The addresses of the objects reachable from r: the nodes and the lists
\* of the Branches among them.
Objects(h, r) ==
    Reach(h, r) \cup {h[a].nodes.at : a \in {b \in Reach(h, r) : h[b].type = "Branch"}}

\* What an assignment can store in a field: for a key another key, for a
\* value None or other bytes, for a child None or a Leaf of the copy.
NewKeys == {<<>>, <<2, 2>>}

NewValues == {None, Bytes(<<9>>)}

NewChildren(h, r) == {None} \cup {Ref(b) : b \in {c \in Reach(h, r) : h[c].type = "Leaf"}}

\* An assignment to a field of the copy or of an object reachable from it:
\* leaf.key, leaf.value, extension.key, extension.node, branch.value,
\* branch.nodes[i].
SetField(a) ==
    /\ copy # None
    /\ nops < MaxNodeOps
    /\ a \in Objects(heap, copy)
    /\ \/ /\ heap[a].type \in {"Leaf", "Extension"}
          /\ \E k \in NewKeys : heap' = [heap EXCEPT ![a].key = k]
       \/ /\ heap[a].type \in {"Leaf", "Branch"}
          /\ \E v \in NewValues : heap' = [heap EXCEPT ![a].value = v]
       \/ /\ heap[a].type = "Extension"
          /\ \E n \in NewChildren(heap, copy) : heap' = [heap EXCEPT ![a].node = n]
       \/ /\ heap[a].type = "list"
          /\ \E i \in 1..Len(heap[a].items), n \in NewChildren(heap, copy) :
                heap' = [heap EXCEPT ![a].items[i] = n]
    /\ last' = Call("setfield", <<>>, None, "none", Ref(a))
    /\ nops' = nops + 1
    /\ UNCHANGED <<root, dict, orig, copy, gen, trie>>

NextNode_ ==
    \/ \E k \in NodeKeys, v \in Values : NodeInsert(k, v)
    \/ \E k \in NodeKeys : NodeDelete(k)
    \/ NodeCopy
    \/ \E a \in DOMAIN heap : SetField(a)

SpecNode == InitNode /\ [][NextNode_]_vars

(***************************************************************************)
(* nibbles_to_bytes consumed to its end, as b''.join(...) and tuple(...)   *)
(* consume it: on a list of nibbles, or on bytes_to_nibbles(b) of a byte   *)
(* string b.  `last` records which, with the input.                        *)
(***************************************************************************)
MaxNibbles == 4

MaxBytes == 2

Nibbles == 0..(Width - 1)

NibbleSample == {0, 1, 12, 15}

AllBytes == 0..(Width * Width - 1)

ByteSample == {0, 15, 16, 44, 255}

SeqsUpTo(S, n) == UNION {[1..m -> S] : m \in 0..n}

\* nibble_lists: short lists of any nibbles, longer lists of a few.
NibbleLists == SeqsUpTo(Nibbles, 2) \cup SeqsUpTo(NibbleSample, MaxNibbles)

\* byte_strs: every single byte, longer strings of a few.
ByteStrs == SeqsUpTo(AllBytes, 1) \cup SeqsUpTo(ByteSample, MaxBytes)

InitCodec ==
    /\ heap = <<>>
    /\ root = None
    /\ dict = [k \in Keys |-> None]
    /\ orig = None
    /\ copy = None
    /\ nops = 0
    /\ trie = None
    /\ \/ \E xs \in NibbleLists :
             /\ last = Call("nibbles_to_bytes", xs, None, "none", None)
             /\ gen = nibbles_to_bytes_frame(xs)
       \/ \E b \in ByteStrs :
             /\ last = Call("bytes_to_nibbles", b, None, "none", None)
             /\ gen = nibbles_to_bytes_frame(bytes_to_nibbles(b))

\* The generator takes the next nibble.
CodecStep ==
    /\ ~gen.done
    /\ gen.pos < Len(gen.xs)
    /\ gen' = nibbles_to_bytes_body(gen)
    /\ UNCHANGED <<heap, root, dict, last, orig, copy, nops, trie>>

\* xs is exhausted: the generator raises or ends.
CodecEnd ==
    /\ ~gen.done
    /\ gen.pos = Len(gen.xs)
    /\ gen' = nibbles_to_bytes_end(gen)
    /\ UNCHANGED <<heap, root, dict, last, orig, copy, nops, trie>>

NextCodec == CodecStep \/ CodecEnd

SpecCodec == InitCodec /\ [][NextCodec]_vars

(***************************************************************************)
(* trie/__init__.py: the hash-addressed Trie.  A Branch here is the value  *)
(* [hashes, value]; the Trie object is the function from its attribute     *)
(* names to their values, so that reading an attribute it does not have    *)
(* raises AttributeError.  Operations return [trie, ret, exc].             *)
(* sha3 and rlp are imported: the hash of an encoding is modelled as the   *)
(* encoded tuple itself, tagged, which makes it deterministic and          *)
(* injective.                                                              *)
(***************************************************************************)
\* sha3(rlp(tuple(node))): tuple(node) is Branch.__iter__, the 16 hashes
\* and then the value.
Branch_iter(node) == Append(node.hashes, node.value)

sha3_rlp(items) == [type |-> "hash", of |-> items]

\* Branch(*args): __init__(self, value=b'') takes at most one argument.
HashBranch_init(args) ==
    IF Len(args) > 1 THEN [ret |-> None, exc |-> "TypeError"]
    ELSE [ret |-> [hashes |-> [i \in 1..Width |-> Bytes(<<>>)],
                   value |-> IF Len(args) = 1 THEN args[1] ELSE Bytes(<<>>)],
          exc |-> "none"]

\* Branch.copy: type(self)(self.hashes[:], self.value)
HashBranch_copy(self) == HashBranch_init(<<self.hashes, self.value>>)

\* Trie.__init__: self._db = {root_hsh: root}
Trie_init ==
    LET root_ == HashBranch_init(<<>>).ret
    IN  [a \in {"_db"} |->
            [h \in {sha3_rlp(Branch_iter(root_))} |-> root_]]

TrieRaise(t, e) == [trie |-> t, ret |-> None, exc |-> e]

\* hsh_ = sha3(rlp(tuple(node_))); self.db[hsh_] = node_; return hsh_
Trie_store(t, node_) ==
    LET hsh_ == sha3_rlp(Branch_iter(node_))
    IN  IF "db" \notin DOMAIN t THEN TrieRaise(t, "AttributeError")
        ELSE [trie |-> [t EXCEPT !["db"] =
                           [h \in DOMAIN t["db"] \cup {hsh_} |->
                               IF h = hsh_ THEN node_ ELSE t["db"][h]]],
              ret |-> hsh_, exc |-> "none"]

\* Trie._set(hsh, key, value).  `node` is bound only when hsh was found.
RECURSIVE Trie_set(_, _, _, _)
Trie_set(t, hsh, key, value) ==
    LET found == hsh \in DOMAIN t["_db"]
        c == IF found THEN HashBranch_copy(t["_db"][hsh])
             ELSE HashBranch_init(<<None>>)
    IN  IF c.exc # "none" THEN TrieRaise(t, c.exc)
        ELSE IF Len(key) = 0
        THEN Trie_store(t, [c.ret EXCEPT !.value = value])
        ELSE IF ~found THEN TrieRaise(t, "UnboundLocalError")
        ELSE LET child == Trie_set(t, t["_db"][hsh].hashes[key[1] + 1],
                                   Tail(key), value)
             IN  IF child.exc # "none" THEN child
                 ELSE Trie_store(child.trie,
                                 [c.ret EXCEPT !.hashes[key[1] + 1] = child.ret])

\* The hashes _set is called with: the root's, the empty hash of an unused
\* slot, and the hash of a Branch that was never stored.
RootHash == sha3_rlp(Branch_iter(HashBranch_init(<<>>).ret))

HashSample ==
    {RootHash, Bytes(<<>>), sha3_rlp(Branch_iter(HashBranch_init(<<Bytes(<<1>>)>>).ret))}

InitHash ==
    /\ heap = <<>>
    /\ root = None
    /\ dict = [k \in Keys |-> None]
    /\ last = Idle
    /\ orig = None
    /\ copy = None
    /\ nops = 0
    /\ gen = None
    /\ trie = Trie_init

\* trie._set(hsh, key, value); `orig` keeps the Trie as it was before.
TrieSet(hsh, key, value) ==
    /\ last = Idle
    /\ LET r == Trie_set(trie, hsh, key, value)
       IN  /\ last' = [op |-> "_set", hsh |-> hsh, key |-> key, value |-> value,
                       exc |-> r.exc, ret |-> r.ret]
           /\ trie' = r.trie
    /\ orig' = trie
    /\ UNCHANGED <<heap, root, dict, copy, nops, gen>>

\* The caller goes on after the call.
TrieReturn ==
    /\ last # Idle
    /\ last' = Idle
    /\ UNCHANGED <<heap, root, dict, orig, copy, nops, gen, trie>>

NextHash ==
    \/ \E hsh \in HashSample, key \in SeqsUpTo(NibbleSample, MaxNibbles), value \in Values :
          TrieSet(hsh, key, value)
    \/ TrieReturn

SpecHash == InitHash /\ [][NextHash]_vars

\* C13: _set with a hash that is in the store returns, the node it returns
\* the hash of is stored under that hash and is the stored Branch with the
\* value set (empty key) or with slot key[0] rewritten to a stored hash, and
\* every entry the store had is still there unchanged.
C13_SetFound ==
    (last.op = "_set" /\ last.hsh \in DOMAIN orig["_db"]) =>
       /\ last.exc = "none"
       /\ last.ret \in DOMAIN trie["_db"]
       /\ last.ret = sha3_rlp(Branch_iter(trie["_db"][last.ret]))
       /\ LET old == orig["_db"][last.hsh]
              new == trie["_db"][last.ret]
          IN  IF Len(last.key) = 0
              THEN new = [old EXCEPT !.value = last.value]
              ELSE /\ new.value = old.value
                   /\ new.hashes[last.key[1] + 1] \in DOMAIN trie["_db"]
                   /\ \A i \in 1..Width :
                         i # last.key[1] + 1 => new.hashes[i] = old.hashes[i]
       /\ \A h \in DOMAIN orig["_db"] :
             h \in DOMAIN trie["_db"] /\ trie["_db"][h] = orig["_db"][h]

\* C14: _set with a hash that is not in the store returns, for the empty
\* and for a non-empty key, and the node it returns the hash of is stored:
\* a Branch that is fresh but for the value (empty key) or one slot.
C14_SetMissing ==
    (last.op = "_set" /\ last.hsh \notin DOMAIN orig["_db"]) =>
       /\ last.exc = "none"
       /\ last.ret \in DOMAIN trie["_db"]
       /\ LET new == trie["_db"][last.ret]
          IN  IF Len(last.key) = 0
              THEN /\ new.value = last.value
                   /\ \A i \in 1..Width : new.hashes[i] = Bytes(<<>>)
              ELSE \A i \in 1..Width :
                      i # last.key[1] + 1 => new.hashes[i] = Bytes(<<>>)

(***************************************************************************)
(* One insert into one node: a node built through the constructors, an     *)
(* Extension with an empty key among them, then node + Leaf(key, value)    *)
(* or, on a Branch, branch + Extension(key, child).                        *)
(***************************************************************************)
ShallowExtensions == {TExtension(<<>>, b) : b \in Branches1}

CaseNodes == NodeSet \cup ShallowExtensions

\* The Extensions a Branch is asked to insert.
CaseExtensions ==
    {TExtension(k, TBranch(None, TLeaf(<<>>, Stored), v)) :
        k \in {<<>>} \cup ExtensionKeys, v \in {None, Stored}}

InitCases ==
    \E t \in CaseNodes :
        LET l == Load(<<>>, t)
        IN  /\ heap = l.heap
            /\ root = l.ret
            /\ orig = [at |-> l.ret, heap |-> l.heap]
            /\ dict = [k \in Keys |-> None]
            /\ last = Idle
            /\ copy = None
            /\ nops = 0
            /\ gen = None
            /\ trie = None

\* node + Leaf(key, value)
CaseInsertLeaf(key, value) == nops = 0 /\ NodeInsert(key, value)

\* branch + e for an Extension e built as the tree t; last.value keeps t.
CaseInsertExtension(t) ==
    /\ nops = 0
    /\ heap[root.at].type = "Branch"
    /\ LET e == Load(heap, t)
           s == Add(e.heap, root, e.ret)
       IN  /\ last' = Call("insert", t.key, t, s.exc, s.ret)
           /\ heap' = s.heap
           /\ root' = IF s.exc = "none" THEN s.ret ELSE root
    /\ nops' = nops + 1
    /\ UNCHANGED <<dict, orig, copy, gen, trie>>

NextCases ==
    \/ \E k \in NodeKeys, v \in Values : CaseInsertLeaf(k, v)
    \/ \E t \in CaseExtensions : CaseInsertExtension(t)

SpecCases == InitCases /\ [][NextCases]_vars

\* What the case analyses of C15, C16 and C17 are stated with: the node that
\* was there before the insert and the leaf inserted, as trees; a Branch
\* given by its populated slots; the common-prefix length of two keys; and
\* the tree that inserting a leaf into a node gives.
CaseBefore == Tree(orig.heap, orig.at)

CaseLeaf == TLeaf(last.key, last.value)

CaseIsLeafInsert(type) ==
    /\ last.op = "insert" /\ nops = 1
    /\ last.value \in Values
    /\ CaseBefore.type = type

BranchWith(f, value) ==
    [type |-> "Branch",
     nodes |-> [i \in 1..Width |-> IF i - 1 \in DOMAIN f THEN f[i - 1] ELSE None],
     value |-> value]

CommonPrefix(x, y) ==
    CHOOSE n \in 0..Len(x) :
        /\ n <= Len(y)
        /\ SubSeq(x, 1, n) = SubSeq(y, 1, n)
        /\ n = Len(x) \/ n = Len(y) \/ x[n + 1] # y[n + 1]

InsertInto(t, leaf) ==
    LET n == Load(<<>>, t)
        l == Leaf_init(n.heap, leaf.key, leaf.value)
        s == Node_insert(l.heap, n.ret, l.ret)
    IN  Tree(s.heap, s.ret)

RECURSIVE C15_Expected(_, _)
C15_Expected(a, b) ==
    IF a.key = b.key THEN b
    ELSE IF a.key = <<>>
    THEN BranchWith(b.key[1] :> TLeaf(Tail(b.key), b.value), a.value)
    ELSE IF b.key = <<>>
    THEN BranchWith(a.key[1] :> TLeaf(Tail(a.key), a.value), b.value)
    ELSE LET l == CommonPrefix(a.key, b.key)
         IN  IF l > 0
             THEN TExtension(SubSeq(a.key, 1, l),
                             C15_Expected(TLeaf(SubSeq(a.key, l + 1, Len(a.key)), a.value),
                                          TLeaf(SubSeq(b.key, l + 1, Len(b.key)), b.value)))
             ELSE BranchWith((a.key[1] :> TLeaf(Tail(a.key), a.value))
                                @@ (b.key[1] :> TLeaf(Tail(b.key), b.value)),
                             None)

\* C15: a.insert(b) on two leaves is b for equal keys, a Branch holding the
\* value of the leaf with the empty key and the tail of the other, an
\* Extension over the common prefix above the insert of the two tails, or a
\* Branch without value holding the two tails.
C15_LeafInsertCases ==
    CaseIsLeafInsert("Leaf") =>
       /\ last.exc = "none"
       /\ Tree(heap, root) = C15_Expected(CaseBefore, CaseLeaf)
       /\ CaseBefore.key = last.key => root = Ref(Len(orig.heap) + 1)

\* Two leaves with a common prefix became an Extension over a Branch.
C15_Witness ==
    /\ CaseIsLeafInsert("Leaf") /\ last.exc = "none"
    /\ CommonPrefix(CaseBefore.key, last.key) = 1
    /\ Len(CaseBefore.key) > 1 /\ Len(last.key) > 1
    /\ heap[root.at].type = "Extension"

\* The path of e below the slot e.key[0] of a Branch.
C16_Shortened(e) ==
    IF Len(e.key) = 1 THEN e.node ELSE TExtension(Tail(e.key), e.node)

C16_Expected(e, b) ==
    IF e.key = <<>> THEN InsertInto(e.node, b)
    ELSE IF b.key = <<>>
    THEN BranchWith(e.key[1] :> C16_Shortened(e), b.value)
    ELSE LET l == CommonPrefix(e.key, b.key)
             rest == TLeaf(SubSeq(b.key, l + 1, Len(b.key)), b.value)
         IN  IF l > 0
             THEN TExtension(SubSeq(e.key, 1, l),
                             IF l = Len(e.key) THEN InsertInto(e.node, rest)
                             ELSE InsertInto(TExtension(SubSeq(e.key, l + 1, Len(e.key)),
                                                        e.node), rest))
             ELSE BranchWith((e.key[1] :> C16_Shortened(e))
                                @@ (b.key[1] :> TLeaf(Tail(b.key), b.value)),
                             None)

\* C16: e.insert(b) on an Extension e is, for an empty e.key, the insert
\* into the child; for an empty b.key a Branch with b's value over e's
\* shortened path; for a common prefix an Extension over it above the
\* insert of the rest of b into the rest of e; and else a Branch without
\* value holding e's shortened path and the tail of b.
C16_ExtensionInsertCases ==
    CaseIsLeafInsert("Extension") =>
       /\ last.exc = "none"
       /\ Tree(heap, root) = C16_Expected(CaseBefore, CaseLeaf)

\* A leaf whose key leaves the Extension's key after one nibble.
C16_Witness ==
    /\ CaseIsLeafInsert("Extension") /\ last.exc = "none"
    /\ Len(CaseBefore.key) = 2 /\ Len(last.key) = 2
    /\ CommonPrefix(CaseBefore.key, last.key) = 1
    /\ heap[root.at].type = "Extension" /\ heap[root.at].key = <<1>>

\* C17: br.insert(b) on a Branch returns a new Branch with a new list; for
\* an empty key it has b's value and br's 16 slot contents; else it has br's
\* value, slot b.key[0] holds the tail of b if the slot was empty and the
\* insert of the tail into the child that was there if not, and every other
\* slot holds the same object as in br.
C17_BranchInsertPathCopy ==
    CaseIsLeafInsert("Branch") =>
       /\ last.exc = "none"
       /\ root.at \notin DOMAIN orig.heap
       /\ heap[root.at].type = "Branch"
       /\ heap[root.at].nodes.at \notin DOMAIN orig.heap
       /\ LET old == orig.heap[orig.at.at]
              olditems == orig.heap[old.nodes.at].items
              new == heap[root.at]
              newitems == heap[new.nodes.at].items
              rest == TLeaf(Tail(last.key), last.value)
          IN  IF last.key = <<>>
              THEN /\ new.value = last.value
                   /\ newitems = olditems
              ELSE /\ new.value = old.value
                   /\ \A i \in 1..Width :
                         IF i # last.key[1] + 1 THEN newitems[i] = olditems[i]
                         ELSE IF olditems[i] = None
                         THEN Tree(heap, newitems[i]) = rest
                         ELSE Tree(heap, newitems[i])
                                 = InsertInto(Tree(orig.heap, olditems[i]), rest)

\* A leaf went into a child of a Branch that has another child beside it.
C17_Witness ==
    /\ CaseIsLeafInsert("Branch") /\ last.exc = "none"
    /\ Len(last.key) > 1
    /\ LET olditems == orig.heap[orig.heap[orig.at.at].nodes.at].items
       IN  /\ olditems[last.key[1] + 1] # None
           /\ \E i \in 1..Width : i # last.key[1] + 1 /\ olditems[i] # None
           /\ orig.heap[olditems[last.key[1] + 1].at].type = "Branch"

\* C18: branch.insert(e) for an Extension e with an empty key raises
\* ValueError, allocates nothing and changes no object; branch.insert of a
\* Leaf with an empty key returns a Branch with the Leaf's value.
C18_InvalidInsertGuard ==
    (last.op = "insert" /\ nops = 1 /\ CaseBefore.type = "Branch"
        /\ last.key = <<>>) =>
       IF last.value \in Values
       THEN /\ last.exc = "none"
            /\ heap[root.at].type = "Branch"
            /\ heap[root.at].value = last.value
       ELSE /\ last.exc = "ValueError"
            /\ root = orig.at
            /\ \A a \in DOMAIN orig.heap : heap[a] = orig.heap[a]
            /\ heap = Load(orig.heap, last.value).heap

\* An Extension with an empty key was refused by a Branch that has a value.
C18_Witness ==
    /\ last.op = "insert" /\ nops = 1 /\ last.exc = "ValueError"
    /\ last.value \notin Values /\ last.key = <<>>
    /\ CaseBefore.type = "Branch" /\ CaseBefore.value # None

(***************************************************************************)
(* A SimpleTrie driven with the keys b"cat", b"car" and the chain b"",     *)
(* b"a", b"ab", b"abc", each key with a value of its own; `nops` counts    *)
(* the calls made since the trie was built.                                *)
(***************************************************************************)
MaxScenarioOps == 4

Cat == <<99, 97, 116>>

Car == <<99, 97, 114>>

ScenarioKeys == {Cat, Car, <<>>, <<97>>, <<97, 98>>, <<97, 98, 99>>}

\* b"1" for b"cat", b"2" for b"car"; for the others the key's last byte, and
\* b"" for the empty key.
ScenarioValue(k) ==
    IF k = Cat THEN Bytes(<<49>>)
    ELSE IF k = Car THEN Bytes(<<50>>)
    ELSE IF k = <<>> THEN Bytes(<<>>)
    ELSE Bytes(<<k[Len(k)]>>)

ScenarioMapped == {k \in ScenarioKeys : dict[k] # None}

InitScenario ==
    /\ heap = <<>>
    /\ root = None
    /\ dict = [k \in ScenarioKeys |-> None]
    /\ last = Idle
    /\ orig = None
    /\ copy = None
    /\ nops = 0
    /\ gen = None
    /\ trie = None

\* trie[k] = ScenarioValue(k)
ScenarioSet(k) ==
    /\ last = Idle
    /\ nops < MaxScenarioOps
    /\ LET r == SimpleTrie_setitem(heap, root, k, ScenarioValue(k))
           c == Collect(r.heap, r.root)
       IN  /\ last' = Call("set", k, ScenarioValue(k), r.exc, None)
           /\ heap' = c.heap
           /\ root' = c.ret
    /\ dict' = [dict EXCEPT ![k] = ScenarioValue(k)]
    /\ nops' = nops + 1
    /\ UNCHANGED <<orig, copy, gen, trie>>

\* del trie[k]
ScenarioDelete(k) ==
    /\ last = Idle
    /\ nops < MaxScenarioOps
    /\ LET r == SimpleTrie_delitem(heap, root, k)
           c == Collect(r.heap, r.root)
       IN  /\ last' = Call("delete", k, None, r.exc, None)
           /\ heap' = c.heap
           /\ root' = c.ret
    /\ dict' = [dict EXCEPT ![k] = None]
    /\ nops' = nops + 1
    /\ UNCHANGED <<orig, copy, gen, trie>>

NextScenario ==
    \/ \E k \in ScenarioKeys : ScenarioSet(k)
    \/ \E k \in ScenarioKeys : ScenarioDelete(k)
    \/ Return

SpecScenario == InitScenario /\ [][NextScenario]_vars

\* C19: after trie[b"cat"] = b"1" and then trie[b"car"] = b"2" on an empty
\* trie, both keys give their values and the root is an Extension over the
\* nibbles the two keys share, 6 3 6 1 of "ca" and the 7 of 't' and 'r',
\* above a Branch without value that holds the two leaves in the slots 4
\* and 2, the nibbles where 't' and 'r' differ.
C19_CatCar ==
    (nops = 2 /\ last.op = "set" /\ last.key = Car /\ dict[Cat] # None) =>
       /\ last.exc = "none"
       /\ SimpleTrie_getitem(heap, root, Cat).exc = "none"
       /\ SimpleTrie_getitem(heap, root, Cat).ret = Bytes(<<49>>)
       /\ SimpleTrie_getitem(heap, root, Car).exc = "none"
       /\ SimpleTrie_getitem(heap, root, Car).ret = Bytes(<<50>>)
       /\ Tree(heap, root)
             = TExtension(<<6, 3, 6, 1, 7>>,
                          BranchWith((4 :> TLeaf(<<>>, Bytes(<<49>>)))
                                        @@ (2 :> TLeaf(<<>>, Bytes(<<50>>))),
                                     None))

\* b"cat" and then b"car" were set on the empty trie.
C19_Witness ==
    /\ nops = 2 /\ last.op = "set" /\ last.key = Car /\ last.exc = "none"
    /\ ScenarioMapped = {Cat, Car}
    /\ heap[root.at].type = "Extension"

\* k1 is a proper prefix of k2.
ProperPrefix(k1, k2) == Len(k1) < Len(k2) /\ SubSeq(k2, 1, Len(k1)) = k1

\* C20: when only the middle key of three mapped keys, each a proper prefix
\* of the next, has been deleted, the other two give their values, the
\* deleted key gives KeyError and len is 2.
C20_PrefixChain ==
    (last.op = "delete" /\ last.exc = "none") =>
       \A k1 \in ScenarioKeys, k3 \in ScenarioKeys :
          (/\ ProperPrefix(k1, last.key) /\ ProperPrefix(last.key, k3)
           /\ ScenarioMapped = {k1, k3}) =>
             /\ SimpleTrie_getitem(heap, root, k1).exc = "none"
             /\ SimpleTrie_getitem(heap, root, k1).ret = ScenarioValue(k1)
             /\ SimpleTrie_getitem(heap, root, k3).exc = "none"
             /\ SimpleTrie_getitem(heap, root, k3).ret = ScenarioValue(k3)
             /\ SimpleTrie_getitem(heap, root, last.key).exc = "KeyError"
             /\ SimpleTrie_len(heap, root) = 2

\* b"a", b"ab" and b"abc" were set and then b"ab" deleted.
C20_Witness ==
    /\ nops = 4 /\ last.op = "delete" /\ last.exc = "none"
    /\ last.key = <<97, 98>>
    /\ ScenarioMapped = {<<97>>, <<97, 98, 99>>}
    /\ SimpleTrie_len(heap, root) = 2

\* C11: nibbles_to_bytes(bytes_to_nibbles(b)) joined is b, with the nibbles
\* of each byte its high then its low one; and bytes_to_nibbles of the joined
\* nibbles_to_bytes(s) is s for s of even length.
C11_CodecRoundTrip ==
    (gen.done /\ gen.exc = "none") =>
       /\ last.op = "bytes_to_nibbles" =>
             /\ join(gen.out) = last.key
             /\ Len(gen.xs) = 2 * Len(last.key)
             /\ \A i \in 1..Len(last.key) :
                   /\ gen.xs[2 * i - 1] = last.key[i] \div 16
                   /\ gen.xs[2 * i] = last.key[i] % 16
       /\ last.op = "nibbles_to_bytes" =>
             /\ bytes_to_nibbles(join(gen.out)) = last.key
             /\ \A i \in 1..Len(gen.out) : gen.out[i][1] \in AllBytes
       /\ gen.xs = <<>> => join(gen.out) = <<>>

\* Two bytes came out of four nibbles.
C11_Witness ==
    /\ gen.done /\ gen.exc = "none"
    /\ last.op = "nibbles_to_bytes"
    /\ Len(gen.xs) = 4 /\ Len(join(gen.out)) = 2
    /\ gen.out[1] # gen.out[2]

\* C12: consumed to its end, nibbles_to_bytes raises ValueError exactly on
\* the lists of odd length.
C12_OddLengthRejected ==
    gen.done =>
       /\ gen.exc \in {"none", "ValueError"}
       /\ (gen.exc = "ValueError") <=> (Len(gen.xs) % 2 = 1)

\* A list of three nibbles was rejected after its first byte came out.
C12_Witness ==
    /\ gen.done /\ gen.exc = "ValueError"
    /\ Len(gen.xs) = 3 /\ Len(gen.out) = 1

\* C2: node += Leaf(key, value) raises nothing, and get(key) on the node it
\* gives returns value.
C2_InsertThenGet ==
    last.op = "insert" =>
       /\ last.exc = "none"
       /\ root # None
       /\ LET g == Node_get(heap, root, last.key)
          IN  g.exc = "none" /\ g.ret = last.value

\* A leaf was inserted into an Extension that had to be split at its first
\* nibble.
C2_Witness ==
    /\ last.op = "insert" /\ last.exc = "none" /\ nops = 1
    /\ orig.at # None /\ orig.heap[orig.at.at].type = "Extension"
    /\ heap[root.at].type = "Branch"

\* C6: after insert and delete calls, whether they returned or raised, every
\* object of n is as it was when n was built, and n gives the same get
\* outcome for every key and the same length.
C6_Persistent ==
    last.op \in {"insert", "delete"} =>
       /\ \A a \in DOMAIN orig.heap : heap[a] = orig.heap[a]
       /\ orig.at # None =>
             /\ \A key \in NodeKeys :
                   /\ Node_get(heap, orig.at, key).exc
                         = Node_get(orig.heap, orig.at, key).exc
                   /\ Node_get(heap, orig.at, key).ret
                         = Node_get(orig.heap, orig.at, key).ret
             /\ Node_len(heap, orig.at) = Node_len(orig.heap, orig.at)

\* Two calls changed the mappings of a Branch: the node they led to is not n.
C6_Witness ==
    /\ last.op = "delete" /\ last.exc = "none" /\ nops = MaxNodeOps
    /\ orig.at # None /\ orig.heap[orig.at.at].type = "Branch"
    /\ root # orig.at
    /\ Tree(heap, root) # Tree(heap, orig.at)

\* C7: None + node is node itself, and trie[key] = value on a trie whose
\* root is None makes the root Leaf(bytes_to_nibbles(key), value).
C7_IdentityOfAbsence ==
    /\ root # None =>
          LET r == Add(heap, None, root)
          IN  /\ r.exc = "none"
              /\ r.ret = root
              /\ r.heap = heap
              /\ Node_eq(r.heap, r.ret, root)
    /\ (last.op = "insert" /\ orig.at = None /\ nops = 1) =>
          /\ last.exc = "none"
          /\ Tree(heap, root) = TLeaf(last.key, last.value)
    /\ \A k \in Keys, v \in Values :
          LET s == SimpleTrie_setitem(heap, None, k, v)
          IN  /\ s.exc = "none"
              /\ Tree(s.heap, s.root) = TLeaf(bytes_to_nibbles(k), v)

\* A leaf was inserted into the absent node.
C7_Witness ==
    /\ last.op = "insert" /\ orig.at = None /\ nops = 1
    /\ root # None /\ Len(last.key) > 0

\* C8: n.copy() is another object than n and equal to it, shares no object
\* with it, and assignments to the fields of the copy's objects leave every
\* object of n as it was.
C8_CopyIndependent ==
    /\ last.op = "copy" =>
          /\ last.exc = "none"
          /\ copy # orig.at
          /\ Node_eq(heap, orig.at, copy)
          /\ Node_eq(heap, copy, orig.at)
          /\ Objects(heap, copy) \cap Objects(heap, orig.at) = {}
    /\ last.op \in {"copy", "setfield"} =>
          /\ \A a \in DOMAIN orig.heap : heap[a] = orig.heap[a]
          /\ Tree(heap, orig.at) = Tree(orig.heap, orig.at)

\* A slot was assigned in the list of a Branch below the copy of a Branch.
C8_Witness ==
    /\ last.op = "setfield" /\ heap[last.ret.at].type = "list"
    /\ heap[copy.at].type = "Branch" /\ heap[copy.at].nodes # last.ret
    /\ Tree(heap, copy) # Tree(heap, orig.at)

\* C3: after a delete that succeeded, get and a second delete on that key fail
\* with KeyError: for the call just made on the trie, and for node.delete(key)
\* on the root node for every key, when the node returned is not None.
C3_DeleteThenGet ==
    /\ (last.op = "delete" /\ last.exc = "none") =>
          /\ SimpleTrie_getitem(heap, root, last.key).exc = "KeyError"
          /\ SimpleTrie_delitem(heap, root, last.key).exc = "KeyError"
    /\ root # None =>
          \A k \in Keys :
              LET key == bytes_to_nibbles(k)
                  d == Node_delete(heap, root, key)
              IN  (d.exc = "none" /\ d.ret # None) =>
                     /\ Node_get(d.heap, d.ret, key).exc = "KeyError"
                     /\ Node_delete(d.heap, d.ret, key).exc = "KeyError"

\* A delete succeeded and left a node behind.
C3_Witness ==
    /\ last.op = "delete" /\ last.exc = "none" /\ root # None
    /\ \E k \in Mapped :
          LET d == Node_delete(heap, root, bytes_to_nibbles(k))
          IN  d.exc = "none" /\ d.ret # None

\* C4: del trie[k] for a key with no mapping raises KeyError and changes
\* neither the root reference, nor any object, nor any key's get, nor len.
C4_DeleteUnmappedAtomic ==
    \A k \in Keys \ Mapped :
        LET r == SimpleTrie_delitem(heap, root, k)
        IN  /\ r.exc = "KeyError"
            /\ r.root = root
            /\ \A a \in DOMAIN heap : r.heap[a] = heap[a]
            /\ \A k2 \in Keys :
                  /\ SimpleTrie_getitem(r.heap, r.root, k2).exc
                        = SimpleTrie_getitem(heap, root, k2).exc
                  /\ SimpleTrie_getitem(r.heap, r.root, k2).ret
                        = SimpleTrie_getitem(heap, root, k2).ret
            /\ SimpleTrie_len(r.heap, r.root) = SimpleTrie_len(heap, root)

\* A delete of an unmapped key has just failed on a trie that holds keys.
C4_Witness ==
    /\ last.op = "delete" /\ last.exc = "KeyError"
    /\ root # None /\ last.key \notin Mapped /\ Cardinality(Mapped) >= 2

\* C5: len(trie) is the number of keys currently mapped.
C5_LenCountsValues == SimpleTrie_len(heap, root) = Cardinality(Mapped)

\* A delete succeeded and two keys are still mapped.
C5_Witness ==
    /\ last.op = "delete" /\ last.exc = "none"
    /\ Cardinality(Mapped) = 2 /\ SimpleTrie_len(heap, root) = 2

\* C9: no node reachable from the root is empty, and the root is None exactly
\* when no key is mapped.
C9_NoEmptyNode ==
    /\ \A a \in Reach(heap, root) :
          CASE heap[a].type = "Leaf" -> heap[a].value # None
            [] heap[a].type = "Extension" -> heap[a].node # None
            [] heap[a].type = "Branch" ->
                 \/ heap[a].value # None
                 \/ \E i \in 1..Width : heap[heap[a].nodes.at].items[i] # None
    /\ (root = None) <=> (Mapped = {})

\* A delete has pruned the trie back to a single Leaf, or to nothing.
C9_Witness ==
    /\ last.op = "delete" /\ last.exc = "none"
    /\ Cardinality(Mapped) = 1
    /\ \E a \in Reach(heap, root) : heap[a].type = "Branch"

\* C10: every Extension reachable from the root has a non-empty key and a
\* child that is present and is a Leaf or a Branch.
C10_ExtensionWellFormed ==
    \A a \in Reach(heap, root) :
        heap[a].type = "Extension" =>
           /\ Len(heap[a].key) > 0
           /\ heap[a].node # None
           /\ heap[heap[a].node.at].type \in {"Leaf", "Branch"}

\* An Extension sits below a Branch after a delete.
C10_Witness ==
    /\ last.op = "delete" /\ last.exc = "none"
    /\ root # None /\ heap[root.at].type = "Branch"
    /\ \E a \in Reach(heap, root) : heap[a].type = "Extension"

\* What trie[k] gives on the trie (h, r): the value, or the exception.
Lookup(h, r, k) ==
    LET g == SimpleTrie_getitem(h, r, k)
    IN  [exc |-> g.exc, ret |-> g.ret]

\* C21: a call trie[b""] = v or del trie[b""], made in any state, leaves what
\* every other key gives as it was; after the set b"" gives v, after the
\* delete it gives KeyError, and the delete raised KeyError exactly when b""
\* was unmapped; and the delete that takes the only key b"" away leaves
\* _root None.
C21_EmptyKeyOrdinary ==
    [][(last = Idle /\ last'.op \in {"set", "delete"} /\ last'.key = <<>>) =>
          /\ \A k \in ScenarioKeys \ {<<>>} :
                Lookup(heap', root', k) = Lookup(heap, root, k)
          /\ last'.op = "set" =>
                /\ last'.exc = "none"
                /\ Lookup(heap', root', <<>>) = [exc |-> "none", ret |-> last'.value]
          /\ last'.op = "delete" =>
                /\ Lookup(heap', root', <<>>) = [exc |-> "KeyError", ret |-> None]
                /\ (last'.exc = "KeyError") <=> (dict[<<>>] = None)
                /\ last'.exc \in {"none", "KeyError"}
                /\ (last'.exc = "none" /\ ScenarioMapped = {<<>>}) => root' = None
      ]_vars

\* On the empty trie b"" was set and then deleted, and _root is None again.
C21_Witness ==
    /\ nops = 2 /\ last.op = "delete" /\ last.key = <<>> /\ last.exc = "none"
    /\ root = None
    /\ SimpleTrie_getitem(heap, root, <<>>).exc = "KeyError"

(***************************************************************************)
(* hex_prefix(xs, t) consumed to its end: it returns the nibbles_to_bytes  *)
(* generator over the flag nibbles chained before xs.  `last` records xs   *)
(* and t.                                                                  *)
(***************************************************************************)
Bool(t) == [type |-> "bool", val |-> t]

\* hex_prefix that puts one flag nibble before xs of even length.
hex_prefix_unpadded(xs, t) ==
    LET flags == IF t THEN 2 ELSE 0
    IN  IF Len(xs) % 2 = 0
        THEN nibbles_to_bytes_frame(<<flags>> \o xs)
        ELSE nibbles_to_bytes_frame(<<flags + 1>> \o xs)

hex_prefix(xs, t) ==
    LET flags == IF t THEN 2 ELSE 0
    IN  IF Len(xs) % 2 = 0
        THEN nibbles_to_bytes_frame(<<flags, 0>> \o xs)
        ELSE nibbles_to_bytes_frame(<<flags + 1>> \o xs)

InitHex ==
    /\ heap = <<>>
    /\ root = None
    /\ dict = [k \in Keys |-> None]
    /\ orig = None
    /\ copy = None
    /\ nops = 0
    /\ trie = None
    /\ \E xs \in NibbleLists, t \in BOOLEAN :
          /\ last = Call("hex_prefix", xs, Bool(t), "none", None)
          /\ gen = hex_prefix(xs, t)

NextHex == CodecStep \/ CodecEnd

SpecHex == InitHex /\ [][NextHex]_vars

\* C22: hex_prefix(xs, t) yields bytes only, and consumed to its end it
\* raises nothing and the nibbles of its bytes are 2 if t else 0, then 0,
\* then xs when len(xs) is even, and 3 if t else 1, then xs when it is odd.
C22_HexPrefix ==
    /\ \A i \in 1..Len(gen.out) :
          Len(gen.out[i]) = 1 /\ gen.out[i][1] \in AllBytes
    /\ gen.done =>
          /\ gen.exc = "none"
          /\ bytes_to_nibbles(join(gen.out))
                = IF Len(last.key) % 2 = 0
                  THEN <<IF last.value.val THEN 2 ELSE 0, 0>> \o last.key
                  ELSE <<IF last.value.val THEN 3 ELSE 1>> \o last.key

\* Both forms were encoded to their end: three nibbles with t true came out
\* as two bytes, the first with the high nibble 3.
C22_Witness ==
    /\ gen.done /\ gen.exc = "none"
    /\ last.op = "hex_prefix" /\ last.value = Bool(TRUE)
    /\ Len(last.key) = 3
    /\ Len(gen.out) = 2 /\ gen.out[1][1] \div 16 = 3

(***************************************************************************)
(* The depth of the calls from one node's get, delete or insert into       *)
(* another node's: 0 for a call that makes none, otherwise one more than   *)
(* the deepest call it makes.  A sum with None on the left goes to         *)
(* __radd__, which calls no insert.                                        *)
(***************************************************************************)
Max(a, b) == IF a < b THEN b ELSE a

RECURSIVE Node_get_depth(_, _, _)
Node_get_depth(h, self, key) ==
    CASE h[self.at].type = "Leaf" -> 0
      [] h[self.at].type = "Extension" ->
           LET i == Len(h[self.at].key)
           IN  IF h[self.at].key = SliceTo(key, i) /\ h[self.at].node # None
               THEN 1 + Node_get_depth(h, h[self.at].node, SliceFrom(key, i))
               ELSE 0
      [] h[self.at].type = "Branch" ->
           IF Len(key) = 0 THEN 0
           ELSE LET node == Branch_getitem(h, self, key[1])
                IN  IF node # None
                    THEN 1 + Node_get_depth(h, node, SliceFrom(key, 1))
                    ELSE 0

RECURSIVE Node_delete_depth(_, _, _)
Node_delete_depth(h, self, key) ==
    CASE h[self.at].type = "Leaf" -> 0
      [] h[self.at].type = "Extension" ->
           LET i == Len(h[self.at].key)
           IN  IF h[self.at].key = SliceTo(key, i) /\ h[self.at].node # None
               THEN 1 + Node_delete_depth(h, h[self.at].node, SliceFrom(key, i))
               ELSE 0
      [] h[self.at].type = "Branch" ->
           IF Len(key) = 0 THEN 0
           ELSE LET node == Branch_getitem(h, self, key[1])
                IN  IF node = None THEN 0
                    ELSE LET c == list_copy(h, h[self.at].nodes)
                             branch == Branch_init(c.heap, c.ret, h[self.at].value)
                         IN  1 + Node_delete_depth(branch.heap, node,
                                                   SliceFrom(key, 1))

RECURSIVE Add_depth(_, _, _), Node_insert_depth(_, _, _)
\* a + b: the call of a.insert(b) and the calls below it.
Add_depth(h, a, b) ==
    IF a = None THEN 0 ELSE 1 + Node_insert_depth(h, a, b)

\* Leaf.insert and Extension.insert differ in their first test and in the
\* tail they take of self; Branch.insert adds to the node in the slot.
Node_insert_depth(h, self, node) ==
    IF h[self.at].type = "Branch"
    THEN IF Narrow_is_shallow(h, node) THEN 0
         ELSE LET c == list_copy(h, h[self.at].nodes)
                  branch == Branch_init(c.heap, c.ret, h[self.at].value)
                  k == h[node.at].key[1]
              IN  IF h[node.at].type = "Extension" THEN 0
                  ELSE LET old == Branch_getitem(branch.heap, branch.ret, k)
                           t == Narrow_tail(branch.heap, node, 1)
                       IN  Add_depth(t.heap, old, t.ret)
    ELSE IF h[self.at].type = "Leaf" /\ h[self.at].key = h[node.at].key THEN 0
    ELSE IF h[self.at].type = "Extension" /\ Narrow_is_shallow(h, self)
    THEN Add_depth(h, h[self.at].node, node)
    ELSE IF Narrow_is_shallow(h, self)
    THEN LET b == Branch_init(h, None, h[self.at].value)
         IN  Add_depth(b.heap, b.ret, node)
    ELSE IF Narrow_is_shallow(h, node)
    THEN LET b == Branch_init(h, None, h[node.at].value)
         IN  Add_depth(b.heap, b.ret, self)
    ELSE LET l == prefix_length(h[self.at].key, h[node.at].key)
         IN  IF l > 0
             THEN LET t1 == Narrow_tail(h, self, l)
                      t2 == Leaf_tail(t1.heap, node, l)
                  IN  Add_depth(t2.heap, t1.ret, t2.ret)
             ELSE LET b == Branch_init(h, None, None)
                      r == Add(b.heap, b.ret, self)
                  IN  Max(Add_depth(b.heap, b.ret, self),
                          IF r.exc # "none" THEN 0
                          ELSE Add_depth(r.heap, r.ret, node))

\* The depth of the node calls below trie[key], del trie[key] and
\* trie[key] = value.
SimpleTrie_getitem_depth(h, r, key) ==
    IF r = None THEN 0 ELSE Node_get_depth(h, r, bytes_to_nibbles(key))

SimpleTrie_delitem_depth(h, r, key) ==
    IF r = None THEN 0 ELSE Node_delete_depth(h, r, bytes_to_nibbles(key))

SimpleTrie_setitem_depth(h, r, key, value) ==
    LET leaf == Leaf_init(h, bytes_to_nibbles(key), value)
    IN  IF r = None THEN 0 ELSE Node_insert_depth(leaf.heap, r, leaf.ret)

\* C23 as stated: on every reachable trie the calls below a get, a delete
\* and a set of a key are no deeper than the key has nibbles.
C23_DepthWithinKey ==
    \A k \in ScenarioKeys :
        LET n == Len(bytes_to_nibbles(k))
        IN  /\ SimpleTrie_getitem_depth(heap, root, k) <= n
            /\ SimpleTrie_delitem_depth(heap, root, k) <= n
            /\ SimpleTrie_setitem_depth(heap, root, k, ScenarioValue(k)) <= n

\* C23: on every reachable trie get, delete and set of a key end, with
\* KeyError or without exception; the calls below a get and a delete are no
\* deeper than the key has nibbles, and those below a set no deeper than
\* that plus one, the one being the insert into a Branch newly made around
\* a node, which takes no nibble off the key.
C23_DepthBounded ==
    \A k \in ScenarioKeys :
        LET n == Len(bytes_to_nibbles(k))
        IN  /\ SimpleTrie_getitem(heap, root, k).exc \in {"none", "KeyError"}
            /\ SimpleTrie_delitem(heap, root, k).exc \in {"none", "KeyError"}
            /\ SimpleTrie_setitem(heap, root, k, ScenarioValue(k)).exc = "none"
            /\ SimpleTrie_getitem_depth(heap, root, k) <= n
            /\ SimpleTrie_delitem_depth(heap, root, k) <= n
            /\ SimpleTrie_setitem_depth(heap, root, k, ScenarioValue(k)) <= n + 1

\* b"a", b"ab" and b"abc" are mapped: the set of b"" goes one call deep, and
\* the get and the delete of b"abc" go below the root.
C23_Witness ==
    /\ ScenarioMapped = {<<97>>, <<97, 98>>, <<97, 98, 99>>}
    /\ last = Idle
    /\ SimpleTrie_setitem_depth(heap, root, <<>>, ScenarioValue(<<>>)) = 1
    /\ SimpleTrie_getitem_depth(heap, root, <<97, 98, 99>>) >= 2
    /\ SimpleTrie_delitem_depth(heap, root, <<97, 98, 99>>) >= 2

\* C24: every call on the SimpleTrie ends without exception or with
\* KeyError: a set ends without exception, a get or a delete that raised
\* KeyError was given a key that was unmapped, and no call ends with the
\* ValueError of Branch.insert (or any other exception).
C24_OnlyKeyError ==
    [][(last = Idle /\ last' # Idle) =>
          /\ last'.exc \in {"none", "KeyError"}
          /\ last'.op = "set" => last'.exc = "none"
          /\ (last'.op \in {"get", "delete"} /\ last'.exc = "KeyError") =>
                dict[last'.key] = None
          /\ last'.exc # "ValueError"
      ]_vars

\* A delete of an unmapped key raised KeyError on a trie that holds
\* MaxEntries keys below a Branch, which the sets before it built without
\* exception.
C24_Witness ==
    /\ last.op = "delete" /\ last.exc = "KeyError"
    /\ Cardinality(Mapped) = MaxEntries
    /\ root # None /\ heap[root.at].type = "Branch"

(***************************************************************************)
(* A SimpleTrie that is only set: each key is set once, with the value     *)
(* that belongs to it, in any order.                                       *)
(***************************************************************************)
\* The keys of Keys, and b"cat", b"car" and b"c".
OrderSeq ==
    SubSeq(KeyList, 1, IF NumKeys < Len(KeyList) THEN NumKeys ELSE Len(KeyList))
       \o <<Cat, Car, <<99>>>>

OrderKeys == {OrderSeq[i] : i \in 1..Len(OrderSeq)}

\* The value of a key: the key's own bytes.
OrderValue(k) == Bytes(k)

OrderMapped == {k \in OrderKeys : dict[k] # None}

InitOrder ==
    /\ heap = <<>>
    /\ root = None
    /\ dict = [k \in OrderKeys |-> None]
    /\ last = Idle
    /\ orig = None
    /\ copy = None
    /\ nops = 0
    /\ gen = None
    /\ trie = None

\* trie[k] = OrderValue(k), for a key not set before
OrderSet(k) ==
    /\ dict[k] = None
    /\ LET r == SimpleTrie_setitem(heap, root, k, OrderValue(k))
           c == Collect(r.heap, r.root)
       IN  /\ last' = Call("set", k, OrderValue(k), r.exc, None)
           /\ heap' = c.heap
           /\ root' = c.ret
    /\ dict' = [dict EXCEPT ![k] = OrderValue(k)]
    /\ UNCHANGED <<orig, copy, nops, gen, trie>>

NextOrder == \E k \in OrderKeys : OrderSet(k)

SpecOrder == InitOrder /\ [][NextOrder]_vars

\* The SimpleTrie (h, r) after the keys of OrderSeq from the i-th on that
\* are in the set ks have been set in the order of OrderSeq.
RECURSIVE SetInOrder(_, _, _, _)
SetInOrder(ks, i, h, r) ==
    IF i > Len(OrderSeq) THEN [heap |-> h, root |-> r, ret |-> None, exc |-> "none"]
    ELSE IF OrderSeq[i] \notin ks THEN SetInOrder(ks, i + 1, h, r)
    ELSE LET s == SimpleTrie_setitem(h, r, OrderSeq[i], OrderValue(OrderSeq[i]))
         IN  IF s.exc # "none" THEN s
             ELSE SetInOrder(ks, i + 1, s.heap, s.root)

\* (n + a) + b == (n + b) + a for the root n and the leaves of the keys ka
\* and kb, by the nodes' __eq__ and as structures.
Commute(ka, kb) ==
    LET a == Leaf_init(heap, bytes_to_nibbles(ka), OrderValue(ka))
        b == Leaf_init(a.heap, bytes_to_nibbles(kb), OrderValue(kb))
        na == Add(b.heap, root, a.ret)
        nab == IF na.exc # "none" THEN na ELSE Add(na.heap, na.ret, b.ret)
        nb == IF nab.exc # "none" THEN nab ELSE Add(nab.heap, root, b.ret)
        nba == IF nb.exc # "none" THEN nb ELSE Add(nb.heap, nb.ret, a.ret)
    IN  /\ nba.exc = "none"
        /\ py_eq(nba.heap, nab.ret, nba.ret)
        /\ py_eq(nba.heap, nba.ret, nab.ret)
        /\ Tree(nba.heap, nab.ret) = Tree(nba.heap, nba.ret)

\* C25: whatever the order in which a set of distinct keys was set on the
\* empty trie, the root is the structure that setting them in the order of
\* OrderSeq gives, and equal to it by __eq__; and for any two further keys
\* ka and kb, (root + a) + b == (root + b) + a.
C25_OrderIndependent ==
    /\ LET f == SetInOrder(OrderMapped, 1, heap, None)
       IN  /\ f.exc = "none"
           /\ Tree(f.heap, f.root) = Tree(heap, root)
           /\ py_eq(f.heap, f.root, root)
    /\ \A ka \in OrderKeys \ OrderMapped, kb \in OrderKeys \ OrderMapped :
          ka # kb => Commute(ka, kb)

\* Four keys were set, b"car" after b"c" and b"cat" last, in a trie whose
\* root is a Branch: an order other than that of OrderSeq; and two more keys
\* can be added either way round.
C25_Witness ==
    /\ last.op = "set" /\ last.key = Cat
    /\ OrderMapped = {Cat, Car, <<99>>, <<18>>}
    /\ heap[root.at].type = "Branch"
    /\ Commute(<<>>, <<18, 19>>)

====
